---- MODULE Spec2Model ----
(***************************************************************************)
(* Now-Next Board: the backend schedule store and time resolver            *)
(* (src/backend/models.py, src/backend/app.py) and the display loop        *)
(* (src/display/main.py).                                                  *)
(*                                                                         *)
(* Time of day is counted in ticks since midnight, TicksPerSec ticks to a  *)
(* second, so that datetime.now() can fall between whole seconds.          *)
(* An Optional value is a sequence: <<>> is Python's None, <<x>> is x.     *)
(* progress_percent is a float in the code; here it is the exact fraction  *)
(* [num, den] with value 100 * elapsed / total = num / den.                *)
(***************************************************************************)
EXTENDS Integers, Sequences, FiniteSets, TLC

\* ---------------------------------------------------------------- bounds
MaxActs == 2          \* activities in one schedule
MaxSchedules == 3     \* schedules the store holds in SpecStore
MaxEvents == 2        \* events one pygame.event.get() returns
Horizon == 12         \* seconds of time.time() the display is followed for
TicksPerSec == 2      \* clock resolution below one second
ProgressDen == 2      \* progress_percent is sampled in steps of 1/ProgressDen
MaxTextLen == 4       \* characters of a text handed to wrap_text

None == <<>>
Some(x) == <<x>>

VARIABLES
    schedules,     \* ScheduleStore: the list kept in data/schedules.json
    request,       \* the backend operation handled last
    now,           \* datetime.now().time() as read by the last get_current
    result,        \* what get_current_and_next_activities returned last
    pc,            \* NowNextBoard: the step of run() the display is at
    running,       \* NowNextBoard.running
    last_poll,     \* NowNextBoard.last_poll
    current_data,  \* NowNextBoard.current_data
    clock,         \* time.time(), in whole seconds
    last_fetch,    \* how the latest fetch_current_activities ended
    screen,        \* what the renderer drew last
    signals,       \* what the latest handle_events was told: "quit", "refresh"
    polled,        \* whether the latest update() called fetch_current_activities
    polls,         \* time.time() at the latest two fetches made by update()
    call,          \* Renderer: the method called last, with its arguments
    ret,           \* Renderer: what that call returned or drew
    image_cache,   \* Renderer.image_cache
    disk           \* files under ~/.cache/nownextboard

backendVars == <<schedules, request, now, result>>
displayVars == <<pc, running, last_poll, current_data, clock, last_fetch, screen,
                 signals, polled, polls>>
rendererVars == <<call, ret, image_cache, disk>>
vars == <<schedules, request, now, result,
          pc, running, last_poll, current_data, clock, last_fetch, screen,
          signals, polled, polls,
          call, ret, image_cache, disk>>

\* ------------------------------------------------------------ time of day
SecondsPerDay == 24 * 60 * 60
TicksPerDay == SecondsPerDay * TicksPerSec

\* datetime.time(h, m, s) plus k ticks, as ticks since midnight
At(h, m, s, k) == ((h * 60 + m) * 60 + s) * TicksPerSec + k

\* datetime.strptime(start_time, "%H:%M").time()
strptime(hm) == At(hm[1], hm[2], 0, 0)

\* Activity.get_end_time: start + timedelta(minutes), then .time() drops the day
get_end_time(a) ==
    (strptime(a.start_time) + a.duration_minutes * 60 * TicksPerSec) % TicksPerDay

\* int(x) of a float of x ticks: truncation towards zero, in whole seconds
int(x) == IF x >= 0 THEN x \div TicksPerSec ELSE -((-x) \div TicksPerSec)

\* ------------------------------------------------------------- the inputs
Act(i, h, m, d) == [id |-> i, start_time |-> <<h, m>>, duration_minutes |-> d]

Breakfast == Act("a1", 7, 0, 30)
School    == Act("a2", 7, 30, 30)
Camp      == Act("a3", 7, 0, 1500)
Night     == Act("a4", 23, 0, 120)
Story     == Act("a5", 23, 30, 15)

ActivityPool == {Breakfast, School, Camp, Night, Story}

\* activity lists of a schedule: ids are unique within a schedule
ActivityLists ==
    {s \in UNION {[1..k -> ActivityPool] : k \in 0..MaxActs} :
        \A i, j \in DOMAIN s : s[i] = s[j] => i = j}

ScheduleIds == {1, 2}

\* instants datetime.now().time() is sampled at
NowSet ==
    { At(0, 30, 0, 0), At(1, 0, 0, 0), At(6, 59, 0, 0), At(7, 0, 0, 0),
      At(7, 15, 0, 0), At(7, 15, 0, 1), At(7, 29, 59, TicksPerSec - 1),
      At(7, 30, 0, 0), At(7, 45, 0, 0), At(8, 0, 0, 0), At(23, 0, 0, 0),
      At(23, 30, 0, 0), At(23, 44, 59, 1), At(23, 45, 0, 0) }

\* ------------------------------------------------------------ the resolver
\* a get_active_schedule that forgets the active flag
get_active_schedule_any(scheds) ==
    IF scheds # <<>> THEN Some(scheds[1]) ELSE None

\* ScheduleStore.get_active_schedule: the first schedule with active set
get_active_schedule(scheds) ==
    IF \E i \in DOMAIN scheds : scheds[i].active
    THEN Some(scheds[CHOOSE i \in DOMAIN scheds :
                 /\ scheds[i].active
                 /\ \A j \in DOMAIN scheds : scheds[j].active => i <= j])
    ELSE None

\* sorted(..., key=start time): a stable insertion, equal keys keep their order
RECURSIVE Insert(_, _)
Insert(a, s) ==
    IF s = <<>> THEN <<a>>
    ELSE IF strptime(s[Len(s)].start_time) <= strptime(a.start_time)
         THEN Append(s, a)
         ELSE Append(Insert(a, SubSeq(s, 1, Len(s) - 1)), s[Len(s)])

\* a resolver that forgets to sort
sorted_storage_order(s) == s

RECURSIVE sorted(_)
sorted(s) ==
    IF s = <<>> THEN <<>>
    ELSE Insert(s[Len(s)], sorted(SubSeq(s, 1, Len(s) - 1)))

\* the activity window of the specification: half-open and wraparound-aware
InWindow(a, t) ==
    LET start == strptime(a.start_time)
        end == get_end_time(a)
    IN  IF end > start THEN start <= t /\ t < end ELSE t >= start \/ t < end

\* a current test made wraparound-aware with lines 50-53 left as they are
IsCurrent_wraparound(a, t) == InWindow(a, t)

\* app.py line 38: start <= now < end
IsCurrent(a, t) == strptime(a.start_time) <= t /\ t < get_end_time(a)

\* index of the activity the first loop breaks at, 0 when it runs to the end
CurrentIndex(acts, t) ==
    IF \E i \in DOMAIN acts : IsCurrent(acts[i], t)
    THEN CHOOSE i \in DOMAIN acts :
            /\ IsCurrent(acts[i], t)
            /\ \A j \in DOMAIN acts : IsCurrent(acts[j], t) => i <= j
    ELSE 0

\* app.py lines 50-60: elapsed is now minus the start on the same day; end_dt
\* (lines 45-48) is computed and never read, so it has no part here
TimeInfo(a, t) ==
    LET total_seconds == a.duration_minutes * 60
        elapsed == t - strptime(a.start_time)
        remaining == total_seconds * TicksPerSec - elapsed
    IN  [ elapsed_seconds |-> int(elapsed),
          remaining_seconds |-> int(remaining),
          total_seconds |-> total_seconds,
          progress_percent |->
              IF total_seconds > 0
              THEN [num |-> elapsed * 100, den |-> total_seconds * TicksPerSec]
              ELSE [num |-> 0, den |-> 1] ]

\* app.py lines 64-69: the first activity of the list starting after now
NextUpcoming(acts, t) ==
    IF \E i \in DOMAIN acts : strptime(acts[i].start_time) > t
    THEN Some(acts[CHOOSE i \in DOMAIN acts :
                 /\ strptime(acts[i].start_time) > t
                 /\ \A j \in DOMAIN acts :
                        strptime(acts[j].start_time) > t => i <= j])
    ELSE None

Result(c, n, ti) == [current |-> c, next |-> n, time_info |-> ti]

get_current_and_next_activities(scheds, t) ==
    LET schedule == get_active_schedule(scheds)
    IN  IF schedule = None THEN Result(None, None, None)
        ELSE LET sorted_activities == sorted(schedule[1].activities)
                 i == CurrentIndex(sorted_activities, t)
             IN  IF i > 0
                 THEN Result(Some(sorted_activities[i]),
                             IF i + 1 <= Len(sorted_activities)
                             THEN Some(sorted_activities[i + 1]) ELSE None,
                             Some(TimeInfo(sorted_activities[i], t)))
                 ELSE Result(None,
                             NextUpcoming(sorted_activities, t),
                             None)

\* --------------------------------------------------------- ScheduleStore
Sched(i, act, acts) == [id |-> i, active |-> act, activities |-> acts]

\* ScheduleStore.add_schedule
AddSchedule(scheds, s) == Append(scheds, s)

\* ScheduleStore.update_schedule: the first schedule with that id is replaced
UpdateSchedule(scheds, s) ==
    IF \E i \in DOMAIN scheds : scheds[i].id = s.id
    THEN LET k == CHOOSE i \in DOMAIN scheds :
                     /\ scheds[i].id = s.id
                     /\ \A j \in DOMAIN scheds : scheds[j].id = s.id => i <= j
         IN  [scheds EXCEPT ![k] = s]
    ELSE scheds

\* ScheduleStore.delete_schedule
RECURSIVE DeleteSchedule(_, _)
DeleteSchedule(scheds, id) ==
    IF scheds = <<>> THEN <<>>
    ELSE LET rest == DeleteSchedule(Tail(scheds), id)
         IN  IF Head(scheds).id # id THEN <<Head(scheds)>> \o rest ELSE rest

\* ScheduleStore.set_active_schedule
SetActiveSchedule(scheds, id) ==
    [i \in DOMAIN scheds |-> [scheds[i] EXCEPT !.active = (scheds[i].id = id)]]

\* schedules a caller hands to the store in SpecStore
StoreActivityLists == {<<>>, <<Breakfast>>}
StoreSchedules ==
    {Sched(i, act, acts) : i \in ScheduleIds, act \in BOOLEAN, acts \in StoreActivityLists}

\* data/schedules.json as ScheduleStore.__init__ finds it in SpecResolver
InitialStores ==
    UNION { {s \in [1..k -> [id : ScheduleIds, active : BOOLEAN, activities : ActivityLists]] :
                \A i \in 1..k : s[i].id = i} : k \in 0..Cardinality(ScheduleIds) }

\* ---------------------------------------------------------------- actions
add_schedule ==
    /\ Len(schedules) < MaxSchedules
    /\ \E s \in StoreSchedules : schedules' = AddSchedule(schedules, s)
    /\ request' = "add_schedule"
    /\ UNCHANGED <<now, result>>
    /\ UNCHANGED displayVars
    /\ UNCHANGED rendererVars

\* app.py create_schedule: a schedule with a new uuid4 id is added
create_schedule ==
    /\ Len(schedules) < MaxSchedules
    /\ \E act \in BOOLEAN, acts \in StoreActivityLists :
          \E i \in ScheduleIds :
             /\ \A j \in DOMAIN schedules : schedules[j].id # i
             /\ schedules' = AddSchedule(schedules, Sched(i, act, acts))
    /\ request' = "create_schedule"
    /\ UNCHANGED <<now, result>>
    /\ UNCHANGED displayVars
    /\ UNCHANGED rendererVars

update_schedule ==
    /\ \E s \in StoreSchedules : schedules' = UpdateSchedule(schedules, s)
    /\ request' = "update_schedule"
    /\ UNCHANGED <<now, result>>
    /\ UNCHANGED displayVars
    /\ UNCHANGED rendererVars

delete_schedule ==
    /\ \E id \in ScheduleIds : schedules' = DeleteSchedule(schedules, id)
    /\ request' = "delete_schedule"
    /\ UNCHANGED <<now, result>>
    /\ UNCHANGED displayVars
    /\ UNCHANGED rendererVars

set_active_schedule ==
    /\ \E id \in ScheduleIds : schedules' = SetActiveSchedule(schedules, id)
    /\ request' = "set_active_schedule"
    /\ UNCHANGED <<now, result>>
    /\ UNCHANGED displayVars
    /\ UNCHANGED rendererVars

\* app.py get_current: the resolver run at the instant datetime.now() returns
get_current ==
    /\ \E t \in NowSet :
          /\ now' = t
          /\ result' = get_current_and_next_activities(schedules, t)
    /\ request' = "get_current"
    /\ UNCHANGED schedules
    /\ UNCHANGED displayVars
    /\ UNCHANGED rendererVars

\* ------------------------------------------------------- the display loop
POLL_INTERVAL == 5

\* bodies /api/current answers with: jsonify of a resolver result
ApiData ==
    { get_current_and_next_activities(st, t) :
        st \in {<<>>, <<Sched(1, TRUE, <<Breakfast, School>>)>>},
        t \in {At(6, 59, 0, 0), At(7, 15, 0, 0)} }

\* how requests.get ends: status 200, another status, RequestException
FetchOutcomes == {"ok", "http_error", "request_exception"}

\* NowNextBoard.fetch_current_activities: the body on status 200, else None
fetch_current_activities(outcome, body) ==
    IF outcome = "ok" THEN Some(body) ELSE None

\* an update() that stores whatever the fetch returned
Polled_always(old, data) == data

\* update(), lines 189-190: "if data: self.current_data = data"
Polled(old, data) == IF data # None THEN data ELSE old

\* seconds one requests.get may take (timeout=5)
FetchSeconds == 0..POLL_INTERVAL

EventKinds == {"QUIT", "K_ESCAPE", "K_q", "K_r", "K_other", "MOUSEBUTTONDOWN"}
EventLists == UNION {[1..k -> EventKinds] : k \in 0..MaxEvents}

\* a handler with no branch for the refresh key
HandleEvent_without_refresh(st, e) ==
    IF e \in {"QUIT", "K_ESCAPE", "K_q"} THEN [st EXCEPT !.running = FALSE] ELSE st

\* one turn of the loop of handle_events over st = [running, last_poll]
HandleEvent(st, e) ==
    IF e = "QUIT" THEN [st EXCEPT !.running = FALSE]
    ELSE IF e \in {"K_ESCAPE", "K_q"} THEN [st EXCEPT !.running = FALSE]
    ELSE IF e = "K_r" THEN [st EXCEPT !.last_poll = 0]
    ELSE st

\* the branch of handle_events an event takes, lines 170-177
Signal(e) ==
    IF e \in {"QUIT", "K_ESCAPE", "K_q"} THEN "quit"
    ELSE IF e = "K_r" THEN "refresh"
    ELSE "none"
Signals(evs) == {Signal(evs[i]) : i \in DOMAIN evs} \ {"none"}

\* an update() that notes the time of successful polls only
Recorded_on_success(old, data, current_time) ==
    IF data # None THEN current_time ELSE old

\* update(), line 191: "self.last_poll = current_time", whatever data is
Recorded(old, data, current_time) == current_time

\* the latest two entries of a list of poll times
LastTwo(ts) == IF Len(ts) > 2 THEN Tail(ts) ELSE ts

RECURSIVE HandleEvents(_, _)
HandleEvents(st, evs) ==
    IF evs = <<>> THEN st
    ELSE HandleEvents(HandleEvent(st, Head(evs)), Tail(evs))

InitDisplay ==
    /\ pc = "run"
    /\ running = TRUE
    /\ last_poll = 0
    /\ current_data = None
    /\ clock = POLL_INTERVAL
    /\ last_fetch = "none"
    /\ screen = "blank"
    /\ signals = {}
    /\ polled = FALSE
    /\ polls = <<>>

\* run(), lines 206-214: the loading screen and the initial fetch
run ==
    /\ pc = "run"
    /\ \E outcome \in FetchOutcomes, body \in ApiData, d \in FetchSeconds :
          /\ clock + d <= POLL_INTERVAL + Horizon
          /\ current_data' = fetch_current_activities(outcome, body)
          /\ last_fetch' = outcome
          /\ clock' = clock + d
    /\ screen' = "loading"
    /\ pc' = IF running THEN "handle_events" ELSE "shutdown"
    /\ UNCHANGED <<running, last_poll, signals, polled, polls>>
    /\ UNCHANGED backendVars
    /\ UNCHANGED rendererVars

handle_events ==
    /\ pc = "handle_events"
    /\ \E evs \in EventLists :
          LET st == HandleEvents([running |-> running, last_poll |-> last_poll], evs)
          IN  /\ running' = st.running
              /\ last_poll' = st.last_poll
              /\ signals' = Signals(evs)
    /\ pc' = "update"
    /\ UNCHANGED <<current_data, clock, last_fetch, screen, polled, polls>>
    /\ UNCHANGED backendVars
    /\ UNCHANGED rendererVars

update ==
    /\ pc = "update"
    /\ LET current_time == clock
       IN  IF current_time - last_poll >= POLL_INTERVAL
           THEN \E outcome \in FetchOutcomes, body \in ApiData, d \in FetchSeconds :
                   LET data == fetch_current_activities(outcome, body)
                   IN  /\ clock + d <= POLL_INTERVAL + Horizon
                       /\ current_data' = Polled(current_data, data)
                       /\ last_fetch' = outcome
                       /\ clock' = clock + d
                       /\ last_poll' = Recorded(last_poll, data, current_time)
                       /\ polled' = TRUE
                       /\ polls' = LastTwo(Append(polls, current_time))
           ELSE /\ polled' = FALSE
                /\ UNCHANGED <<current_data, last_fetch, clock, last_poll, polls>>
    /\ pc' = "render"
    /\ UNCHANGED <<running, screen, signals>>
    /\ UNCHANGED backendVars
    /\ UNCHANGED rendererVars

render ==
    /\ pc = "render"
    /\ screen' = IF current_data = None THEN "loading" ELSE "board"
    /\ pc' = "clock_tick"
    /\ UNCHANGED <<running, last_poll, current_data, clock, last_fetch>>
    /\ UNCHANGED <<signals, polled, polls>>
    /\ UNCHANGED backendVars
    /\ UNCHANGED rendererVars

\* run(), lines 217 and 223: clock.tick(30), then the loop test
clock_tick ==
    /\ pc = "clock_tick"
    /\ \E d \in 0..1 :
          /\ clock + d <= POLL_INTERVAL + Horizon
          /\ clock' = clock + d
    /\ pc' = IF running THEN "handle_events" ELSE "shutdown"
    /\ UNCHANGED <<running, last_poll, current_data, last_fetch, screen>>
    /\ UNCHANGED <<signals, polled, polls>>
    /\ UNCHANGED backendVars
    /\ UNCHANGED rendererVars

\* run(), lines 225-227
shutdown ==
    /\ pc = "shutdown"
    /\ pc' = "exited"
    /\ UNCHANGED <<running, last_poll, current_data, clock, last_fetch, screen>>
    /\ UNCHANGED <<signals, polled, polls>>
    /\ UNCHANGED backendVars
    /\ UNCHANGED rendererVars

\* ------------------------------------------------------------ the renderer
\* progress_percent is a float in the code; the renderer is given n, standing
\* for the exact value n / ProgressDen, and lengths along the border are
\* counted in units of 1 / (100 * ProgressDen) pixel.
SCREEN_WIDTH == 800
SCREEN_HEIGHT == 480
RING_THICKNESS == 20
TIMER_COLOR_GREEN == <<76, 175, 80>>
TIMER_COLOR_AMBER == <<255, 193, 7>>
TIMER_COLOR_RED == <<244, 67, 54>>

ProgressInputs == (0 - ProgressDen)..(100 * ProgressDen + ProgressDen)

\* int(a / b) for b > 0: truncation towards zero
TruncDiv(a, b) == IF a >= 0 THEN a \div b ELSE -((-a) \div b)

\* int(from + (to - from) * ratio) with ratio = num / den, channel by channel
Blend(from, to, num, den) ==
    [i \in 1..3 |-> TruncDiv(from[i] * den + (to[i] - from[i]) * num, den)]

\* lines 35-38: ratio = progress_percent / 50.0
GreenToAmber(n) == Blend(TIMER_COLOR_GREEN, TIMER_COLOR_AMBER, n, 50 * ProgressDen)

\* an amber-to-red ramp spread over 50 points like the first one
AmberToRed_over50(n) ==
    Blend(TIMER_COLOR_AMBER, TIMER_COLOR_RED, n - 50 * ProgressDen, 50 * ProgressDen)

\* lines 41-44: ratio = (progress_percent - 50) / 25.0
AmberToRed(n) ==
    Blend(TIMER_COLOR_AMBER, TIMER_COLOR_RED, n - 50 * ProgressDen, 25 * ProgressDen)

\* Renderer.get_timer_color
get_timer_color(n) ==
    IF n < 50 * ProgressDen THEN GreenToAmber(n)
    ELSE IF n < 75 * ProgressDen THEN AmberToRed(n)
    ELSE TIMER_COLOR_RED

\* pixels are counted in units of 1 / PixelUnit
PixelUnit == 100 * ProgressDen
Min(a, b) == IF a <= b THEN a ELSE b
Max(a, b) == IF a >= b THEN a ELSE b
Line(x1, y1, x2, y2) == [from |-> <<x1, y1>>, to |-> <<x2, y2>>]

\* line 67: progress_distance = (progress_percent / 100) * perimeter
progress_distance(n) == n * (2 * (SCREEN_WIDTH + SCREEN_HEIGHT))

\* lines 78-82: top edge, from the top centre to the right
TopRightEdge(pd, cur) ==
    Line((SCREEN_WIDTH \div 2) * PixelUnit, (RING_THICKNESS \div 2) * PixelUnit,
         Min((SCREEN_WIDTH \div 2) * PixelUnit + (pd - cur), SCREEN_WIDTH * PixelUnit),
         (RING_THICKNESS \div 2) * PixelUnit)

\* a right edge that forgets the distance already drawn
RightEdge_from_zero(pd, cur) ==
    Line((SCREEN_WIDTH - RING_THICKNESS \div 2) * PixelUnit, 0,
         (SCREEN_WIDTH - RING_THICKNESS \div 2) * PixelUnit,
         Min(pd, SCREEN_HEIGHT * PixelUnit))

\* lines 89-94: right edge, top to bottom
RightEdge(pd, cur) ==
    Line((SCREEN_WIDTH - RING_THICKNESS \div 2) * PixelUnit, 0,
         (SCREEN_WIDTH - RING_THICKNESS \div 2) * PixelUnit,
         Min(pd - cur, SCREEN_HEIGHT * PixelUnit))

\* lines 101-106: bottom edge, right to left
BottomEdge(pd, cur) ==
    Line(SCREEN_WIDTH * PixelUnit, (SCREEN_HEIGHT - RING_THICKNESS \div 2) * PixelUnit,
         Max(SCREEN_WIDTH * PixelUnit - (pd - cur), 0),
         (SCREEN_HEIGHT - RING_THICKNESS \div 2) * PixelUnit)

\* lines 113-118: left edge, bottom to top
LeftEdge(pd, cur) ==
    Line((RING_THICKNESS \div 2) * PixelUnit, SCREEN_HEIGHT * PixelUnit,
         (RING_THICKNESS \div 2) * PixelUnit,
         Max(SCREEN_HEIGHT * PixelUnit - (pd - cur), 0))

\* lines 125-128: top edge, from the left corner to the top centre
TopLeftEdge(pd, cur) ==
    Line(0, (RING_THICKNESS \div 2) * PixelUnit,
         Min(pd - cur, (SCREEN_WIDTH \div 2) * PixelUnit),
         (RING_THICKNESS \div 2) * PixelUnit)

\* "if progress_distance > current_distance: pygame.draw.line(...)"
Drawn(pd, cur, seg) == IF pd > cur THEN <<seg>> ELSE <<>>

\* Renderer.draw_border_timer, lines 59-128: the coloured lines, in draw order
BorderSegments(n) ==
    IF n <= 0 THEN <<>>
    ELSE LET pd == progress_distance(n)
             c1 == (SCREEN_WIDTH \div 2) * PixelUnit
             c2 == c1 + SCREEN_HEIGHT * PixelUnit
             c3 == c2 + SCREEN_WIDTH * PixelUnit
             c4 == c3 + SCREEN_HEIGHT * PixelUnit
         IN  Drawn(pd, 0, TopRightEdge(pd, 0)) \o
             (IF pd <= c1 THEN <<>> ELSE
              Drawn(pd, c1, RightEdge(pd, c1)) \o
              (IF pd <= c2 THEN <<>> ELSE
               Drawn(pd, c2, BottomEdge(pd, c2)) \o
               (IF pd <= c3 THEN <<>> ELSE
                Drawn(pd, c3, LeftEdge(pd, c3)) \o
                (IF pd <= c4 THEN <<>> ELSE
                 Drawn(pd, c4, TopLeftEdge(pd, c4))))))

\* ---- wrap_text: a string is a sequence of characters
Chars == {"a", "W", " "}
Texts == UNION {[1..k -> Chars] : k \in 0..MaxTextLen}
WrapWidths == 0..MaxTextLen

\* font.render(line).get_width(): every character adds its own advance
CharWidth(c) == IF c = "W" THEN 2 ELSE 1
RECURSIVE get_width(_)
get_width(line) ==
    IF line = <<>> THEN 0 ELSE CharWidth(Head(line)) + get_width(Tail(line))

\* text.split(' '): one more word than there are spaces, empty words included
RECURSIVE split(_)
split(text) ==
    IF text = <<>> THEN << <<>> >>
    ELSE LET rest == split(Tail(text))
         IN  IF Head(text) = " " THEN << <<>> >> \o rest
             ELSE << <<Head(text)>> \o rest[1] >> \o Tail(rest)

\* ' '.join(words)
RECURSIVE join(_)
join(words) ==
    IF words = <<>> THEN <<>>
    ELSE IF Len(words) = 1 THEN words[1]
    ELSE words[1] \o <<" ">> \o join(Tail(words))

\* a loop body that closes the current line without looking whether it is empty
WrapWord_unguarded(acc, word, max_width) ==
    IF get_width(join(Append(acc.current_line, word))) <= max_width
    THEN [acc EXCEPT !.current_line = Append(acc.current_line, word)]
    ELSE [lines |-> Append(acc.lines, join(acc.current_line)), current_line |-> <<word>>]

\* lines 137-147: the body of the loop over the words
WrapWord(acc, word, max_width) ==
    IF get_width(join(Append(acc.current_line, word))) <= max_width
    THEN [acc EXCEPT !.current_line = Append(acc.current_line, word)]
    ELSE [lines |-> IF acc.current_line # <<>>
                    THEN Append(acc.lines, join(acc.current_line))
                    ELSE acc.lines,
          current_line |-> <<word>>]

RECURSIVE WrapWords(_, _, _)
WrapWords(acc, words, max_width) ==
    IF words = <<>> THEN acc
    ELSE WrapWords(WrapWord(acc, Head(words), max_width), Tail(words), max_width)

\* Renderer.wrap_text
wrap_text(text, max_width) ==
    LET acc == WrapWords([lines |-> <<>>, current_line |-> <<>>], split(text), max_width)
    IN  IF acc.current_line # <<>>
        THEN Append(acc.lines, join(acc.current_line))
        ELSE acc.lines

\* ---- get_auto_background_color: names and keys are sequences of characters
UpperCase == <<"A", "B", "C", "D", "E", "F", "G", "H", "I", "J", "K", "L", "M", "N", "O", "P", "Q", "R", "S", "T", "U", "V", "W", "X", "Y", "Z">>
LowerCase == <<"a", "b", "c", "d", "e", "f", "g", "h", "i", "j", "k", "l", "m", "n", "o", "p", "q", "r", "s", "t", "u", "v", "w", "x", "y", "z">>

\* str.lower(), character by character
lower(name) ==
    [i \in 1..Len(name) |->
        IF \E k \in DOMAIN UpperCase : UpperCase[k] = name[i]
        THEN LowerCase[CHOOSE k \in DOMAIN UpperCase : UpperCase[k] = name[i]]
        ELSE name[i]]

\* "key in activity_lower"
Contains(key, str) ==
    \E i \in 0..(Len(str) - Len(key)) : SubSeq(str, i + 1, i + Len(key)) = key

\* color_map, lines 202-229, in the order the dict literal lists its keys
color_map ==
    <<
       [key |-> <<"w", "a", "k", "e">>, color |-> <<255, 248, 220>>],
       [key |-> <<"d", "r", "e", "s", "s">>, color |-> <<230, 230, 250>>],
       [key |-> <<"b", "r", "e", "a", "k", "f", "a", "s", "t">>, color |-> <<255, 250, 205>>],
       [key |-> <<"l", "u", "n", "c", "h">>, color |-> <<255, 239, 213>>],
       [key |-> <<"d", "i", "n", "n", "e", "r">>, color |-> <<255, 228, 196>>],
       [key |-> <<"e", "a", "t">>, color |-> <<255, 245, 238>>],
       [key |-> <<"b", "r", "u", "s", "h">>, color |-> <<224, 255, 255>>],
       [key |-> <<"t", "e", "e", "t", "h">>, color |-> <<224, 255, 255>>],
       [key |-> <<"b", "a", "t", "h">>, color |-> <<240, 248, 255>>],
       [key |-> <<"s", "h", "o", "w", "e", "r">>, color |-> <<240, 248, 255>>],
       [key |-> <<"s", "c", "h", "o", "o", "l">>, color |-> <<255, 250, 240>>],
       [key |-> <<"h", "o", "m", "e", "w", "o", "r", "k">>, color |-> <<245, 245, 220>>],
       [key |-> <<"r", "e", "a", "d">>, color |-> <<250, 240, 230>>],
       [key |-> <<"p", "l", "a", "y">>, color |-> <<240, 255, 240>>],
       [key |-> <<"o", "u", "t", "s", "i", "d", "e">>, color |-> <<240, 255, 255>>],
       [key |-> <<"p", "a", "r", "k">>, color |-> <<245, 255, 250>>],
       [key |-> <<"b", "e", "d">>, color |-> <<230, 230, 250>>],
       [key |-> <<"s", "l", "e", "e", "p">>, color |-> <<230, 230, 250>>],
       [key |-> <<"p", "a", "c", "k">>, color |-> <<255, 250, 250>>],
       [key |-> <<"c", "l", "e", "a", "n">>, color |-> <<245, 255, 250>>],
       [key |-> <<"s", "h", "o", "e", "s">>, color |-> <<250, 235, 215>>],
       [key |-> <<"j", "a", "c", "k", "e", "t">>, color |-> <<255, 248, 220>>],
       [key |-> <<"s", "n", "a", "c", "k">>, color |-> <<255, 245, 238>>],
       [key |-> <<"e", "x", "e", "r", "c", "i", "s", "e">>, color |-> <<240, 255, 240>>],
       [key |-> <<"w", "a", "l", "k">>, color |-> <<245, 255, 250>>],
       [key |-> <<"l", "e", "a", "v", "e">>, color |-> <<255, 250, 205>>]
    >>

\* line 237
DefaultBackground == <<250, 250, 245>>

\* a lookup where a later key overrides an earlier one
LastMatch(table, str) ==
    LET hits == {k \in DOMAIN table : Contains(table[k].key, str)}
    IN  IF hits = {} THEN DefaultBackground
        ELSE table[CHOOSE k \in hits : \A j \in hits : j <= k].color

\* lines 232-237: the loop returns at the first key found in the name
RECURSIVE FirstMatch(_, _)
FirstMatch(table, str) ==
    IF table = <<>> THEN DefaultBackground
    ELSE IF Contains(Head(table).key, str) THEN Head(table).color
    ELSE FirstMatch(Tail(table), str)

\* Renderer.get_auto_background_color
get_auto_background_color(name) == FirstMatch(color_map, lower(name))

\* "Bedtime Reading", "Breakfast", "SLEEP", "Maths", "Eat lunch", "Go to bed",
\* "Teeth brushing", "Play outside", ""
BedtimeReading == <<"B", "e", "d", "t", "i", "m", "e", " ", "R", "e", "a", "d", "i", "n", "g">>
ActivityNames ==
    { BedtimeReading,
      <<"B", "r", "e", "a", "k", "f", "a", "s", "t">>,
      <<"S", "L", "E", "E", "P">>,
      <<"M", "a", "t", "h", "s">>,
      <<"E", "a", "t", " ", "l", "u", "n", "c", "h">>,
      <<"G", "o", " ", "t", "o", " ", "b", "e", "d">>,
      <<"T", "e", "e", "t", "h", " ", "b", "r", "u", "s", "h", "i", "n", "g">>,
      <<"P", "l", "a", "y", " ", "o", "u", "t", "s", "i", "d", "e">>,
      <<>> }

\* ---- background images
\* An image reference is the string image_url, kept as the parts the code
\* looks at: http(s) or not, the host, and os.path.basename of the path.
\* Blank stands for a string of spaces only.
Ref(scheme, host, file) == [scheme |-> scheme, host |-> host, file |-> file]
UrlA == Ref("http", "a", "pic.jpg")
UrlB == Ref("http", "b", "pic.jpg")
LocalC == Ref("path", "", "c.png")
Blank == Ref("blank", "", "")
ImageRefs == {UrlA, UrlB, LocalC}

PADDING == 40
\* render(), lines 413-415: both cards have this size
CardSize ==
    LET inner_padding == PADDING + RING_THICKNESS + 10
    IN  << (SCREEN_WIDTH - inner_padding * 3) \div 2, SCREEN_HEIGHT - inner_padding * 2 >>
ImageSizes == {CardSize, <<SCREEN_WIDTH, SCREEN_HEIGHT>>}

\* how urllib.request.urlretrieve ends: the file written, an error before
\* the file is opened, or an error that leaves a partial file behind
DownloadOutcomes == {"ok", "error", "truncated"}
\* what pygame.image.load finds at a local path: no image, or one of two
\* pictures the file holds at different times
LocalOutcomes == {"fail", "v1", "v2"}

\* what can happen around one load: the network matters to an http(s)
\* reference only, the local file to a path only
Outcomes(image_url) ==
    IF image_url.scheme = "http" THEN {<<dl, "fail">> : dl \in DownloadOutcomes}
    ELSE {<<"error", loc>> : loc \in LocalOutcomes}

\* line 261: f"{image_url}_{width}_{height}"; width and height are integers,
\* so the string names the three parts without ambiguity
cache_key(image_url, width, height) == <<image_url, width, height>>

\* line 294: int(255 * 0.3)
ALPHA == (255 * 3) \div 10

\* lines 286-295: the picture scaled to the card, at reduced opacity on white
ImageSurface(picture, width, height) ==
    [picture |-> picture, width |-> width, height |-> height, alpha |-> ALPHA]

Put(f, k, v) == [x \in DOMAIN f \cup {k} |-> IF x = k THEN v ELSE f[x]]

\* a lookup that never finds the key
Cached_never(cache, key) == FALSE

\* line 263: cache_key in self.image_cache
Cached(cache, key) == key \in DOMAIN cache

Loaded(surface, cache, dsk, io) ==
    [surface |-> surface, cache |-> cache, disk |-> dsk, io |-> io]

\* lines 285-298 once image_path is known: picture is <<>> when
\* pygame.image.load raises, and the except clause then returns None
Decode(cache, dsk, key, picture, io) ==
    IF picture = None
    THEN Loaded(None, cache, dsk, io \cup {"decode"})
    ELSE LET surface == ImageSurface(picture[1], key[2], key[3])
         IN  Loaded(Some(surface), Put(cache, key, surface), dsk, io \cup {"decode"})

\* Renderer.load_background_image; dl and loc are what the network and the
\* local file system do during this call
LoadImage(cache, dsk, image_url, width, height, dl, loc) ==
    LET key == cache_key(image_url, width, height)
        local_path == image_url.file
    IN  IF Cached(cache, key) THEN Loaded(Some(cache[key]), cache, dsk, {})
        ELSE IF image_url.scheme = "http"
        THEN IF local_path \notin DOMAIN dsk
             THEN IF dl = "ok"
                  THEN Decode(cache, Put(dsk, local_path, Some(image_url.host)), key,
                              Some(image_url.host), {"download"})
                  ELSE IF dl = "truncated"
                  THEN Loaded(None, cache, Put(dsk, local_path, None), {"download"})
                  ELSE Loaded(None, cache, dsk, {"download"})
             ELSE Decode(cache, dsk, key, dsk[local_path], {})
        ELSE Decode(cache, dsk, key, IF loc = "fail" THEN None ELSE Some(loc), {})

\* create_gradient_background with set_alpha, lines 323-327 and 330-334
Gradient(color) ==
    [kind |-> "gradient", surface |-> None, color |-> Some(color), alpha |-> ALPHA]
ImageBackground(surface) ==
    [kind |-> "image", surface |-> Some(surface), color |-> None, alpha |-> ALPHA]
NoBackground == [kind |-> "none", surface |-> None, color |-> None, alpha |-> 255]

\* a fallback that does not look at the name
Fallback_default(activity) == Gradient(DefaultBackground)

\* lines 322-327: the image failed to load
Fallback(activity) == Gradient(get_auto_background_color(activity.name))

\* lines 313-334 of draw_activity_card: the card background and what loading
\* it did to the cache and the disk
CardBackground(cache, dsk, activity, width, height, dl, loc) ==
    IF activity = None THEN [background |-> NoBackground, load |-> None, cache |-> cache, disk |-> dsk]
    ELSE LET image_url == activity[1].background_image
         IN  IF image_url # None /\ image_url[1] # Blank
             THEN LET l == LoadImage(cache, dsk, image_url[1], width, height, dl, loc)
                  IN  [ background |-> IF l.surface # None THEN ImageBackground(l.surface[1])
                                       ELSE Fallback(activity[1]),
                        load |-> Some(l), cache |-> l.cache, disk |-> l.disk ]
             ELSE [ background |-> Gradient(get_auto_background_color(activity[1].name)),
                    load |-> None, cache |-> cache, disk |-> dsk ]

\* activities as /api/current lists them, cut down to what the card reads
CardActivities ==
    { [name |-> n, background_image |-> b] :
        n \in {BedtimeReading, <<"M", "a", "t", "h", "s">>},
        b \in {None, Some(Blank)} \cup {Some(r) : r \in ImageRefs} }

InitRenderer ==
    /\ call = [op |-> "__init__"]
    /\ ret = <<>>
    /\ image_cache = <<>>
    /\ disk = <<>>

timer_color ==
    /\ \E n \in ProgressInputs :
          /\ call' = [op |-> "get_timer_color", progress |-> n]
          /\ ret' = get_timer_color(n)
    /\ UNCHANGED <<image_cache, disk>>
    /\ UNCHANGED backendVars
    /\ UNCHANGED displayVars

draw_border_timer ==
    /\ \E n \in ProgressInputs :
          /\ call' = [op |-> "draw_border_timer", progress |-> n]
          /\ ret' = [ color |-> IF n <= 0 THEN None ELSE Some(get_timer_color(n)),
                      segments |-> BorderSegments(n) ]
    /\ UNCHANGED <<image_cache, disk>>
    /\ UNCHANGED backendVars
    /\ UNCHANGED displayVars

wrap ==
    /\ \E text \in Texts, max_width \in WrapWidths :
          /\ call' = [op |-> "wrap_text", text |-> text, max_width |-> max_width]
          /\ ret' = wrap_text(text, max_width)
    /\ UNCHANGED <<image_cache, disk>>
    /\ UNCHANGED backendVars
    /\ UNCHANGED displayVars

auto_background_color ==
    /\ \E name \in ActivityNames :
          /\ call' = [op |-> "get_auto_background_color", name |-> name]
          /\ ret' = get_auto_background_color(name)
    /\ UNCHANGED <<image_cache, disk>>
    /\ UNCHANGED backendVars
    /\ UNCHANGED displayVars

\* the outcomes that matter to one card: none when it loads no image
CardOutcomes(activity) ==
    IF activity # None /\ activity[1].background_image \notin {None, Some(Blank)}
    THEN Outcomes(activity[1].background_image[1])
    ELSE {<<"error", "fail">>}

load_background_image ==
    /\ \E image_url \in ImageRefs, size \in ImageSizes :
        \E o \in Outcomes(image_url) :
          LET l == LoadImage(image_cache, disk, image_url, size[1], size[2], o[1], o[2])
          IN  /\ call' = [op |-> "load_background_image", image_url |-> image_url,
                          width |-> size[1], height |-> size[2]]
              /\ ret' = [surface |-> l.surface, io |-> l.io]
              /\ image_cache' = l.cache
              /\ disk' = l.disk
    /\ UNCHANGED backendVars
    /\ UNCHANGED displayVars

draw_activity_card ==
    /\ \E activity \in {None} \cup {Some(a) : a \in CardActivities} :
        \E o \in CardOutcomes(activity) :
          LET c == CardBackground(image_cache, disk, activity, CardSize[1], CardSize[2], o[1], o[2])
          IN  /\ call' = [op |-> "draw_activity_card", activity |-> activity]
              /\ ret' = [background |-> c.background,
                         loaded |-> IF c.load = None THEN None ELSE c.load[1].surface,
                         tried |-> c.load # None,
                         raised |-> FALSE]
              /\ image_cache' = c.cache
              /\ disk' = c.disk
    /\ UNCHANGED backendVars
    /\ UNCHANGED displayVars

\* ---------------------------------------------------------- specifications
InitBackend ==
    /\ request = "none"
    /\ now = 0
    /\ result = Result(None, None, None)

\* the store from an empty data file, under every store operation
InitStore == schedules = <<>> /\ InitBackend /\ InitDisplay /\ InitRenderer
NextStore ==
    \/ add_schedule
    \/ create_schedule
    \/ update_schedule
    \/ delete_schedule
    \/ set_active_schedule
SpecStore == InitStore /\ [][NextStore]_vars

\* the resolver over every stored file, sampled at the instants of NowSet
InitResolver == schedules \in InitialStores /\ InitBackend /\ InitDisplay /\ InitRenderer
NextResolver == get_current
SpecResolver == InitResolver /\ [][NextResolver]_vars

\* the display loop from construction to shutdown
InitLoop == schedules = <<>> /\ InitBackend /\ InitDisplay /\ InitRenderer
NextDisplay ==
    \/ run
    \/ handle_events
    \/ update
    \/ render
    \/ clock_tick
    \/ shutdown
SpecDisplay == InitLoop /\ [][NextDisplay]_vars

\* the renderer, one method call after another
InitRendering == schedules = <<>> /\ InitBackend /\ InitDisplay /\ InitRenderer
NextRenderer ==
    \/ timer_color
    \/ draw_border_timer
    \/ wrap
    \/ auto_background_color
SpecRenderer == InitRendering /\ [][NextRenderer]_vars

\* the image cache under loads and card draws
NextImages ==
    \/ load_background_image
    \/ draw_activity_card
SpecImages == InitRendering /\ [][NextImages]_vars

\* ------------------------------------------------------------- properties
start_of(a) == strptime(a.start_time)

\* the stored schedules whose active flag is set, and the first of them
ActiveIndexes == {i \in DOMAIN schedules : schedules[i].active}
FirstActive == CHOOSE i \in ActiveIndexes : \A j \in ActiveIndexes : i <= j

\* the activities the resolver is to work on, in storage order
Acts == IF ActiveIndexes = {} THEN <<>> ELSE schedules[FirstActive].activities

\* the last request was a resolution of the store as it stands
Resolved == request = "get_current"

\* time elapsed since the start of a window that may cross midnight
SinceStart(a, t) == (t - start_of(a)) % TicksPerDay

\* length of the window [start_time, end_time) of a positive duration
WindowLength(a) ==
    LET l == (get_end_time(a) - start_of(a)) % TicksPerDay
    IN  IF l = 0 THEN TicksPerDay ELSE l

Overlap(a, b) ==
    \/ (start_of(b) - start_of(a)) % TicksPerDay < WindowLength(a)
    \/ (start_of(a) - start_of(b)) % TicksPerDay < WindowLength(b)

\* indexes of a list whose window holds t
Matching(acts, t) == {i \in DOMAIN acts : InWindow(acts[i], t)}

\* C1: an activity whose end time is at or before its start time is current
\* whenever now >= start_time or now < end_time, with elapsed and remaining
\* measured from its start: Night (23:00, 120 minutes) at 00:30 is current
\* with elapsed 5400 s, remaining 1800 s and progress 75.
C1_MidnightSpanIsCurrent ==
    Resolved =>
        \A i \in DOMAIN Acts :
            LET a == Acts[i]
            IN  (get_end_time(a) <= start_of(a) /\ (now >= start_of(a) \/ now < get_end_time(a)))
                => /\ result.current # None
                   /\ Len(Acts) = 1 =>
                        /\ result.current = Some(a)
                        /\ result.time_info # None
                        /\ result.time_info[1].elapsed_seconds = int(SinceStart(a, now))
                        /\ (a = Night /\ now = At(0, 30, 0, 0)) =>
                              /\ result.time_info[1].elapsed_seconds = 5400
                              /\ result.time_info[1].remaining_seconds = 1800
                              /\ result.time_info[1].progress_percent.num
                                    = 75 * result.time_info[1].progress_percent.den

\* C2: every time_info has elapsed_seconds + remaining_seconds = total_seconds
\* and total_seconds = duration_minutes * 60, at instants between whole
\* seconds too.
C2_ElapsedPlusRemainingIsTotal ==
    (Resolved /\ result.time_info # None) =>
        LET ti == result.time_info[1]
        IN  /\ ti.elapsed_seconds + ti.remaining_seconds = ti.total_seconds
            /\ ti.total_seconds = result.current[1].duration_minutes * 60

\* C3: after any sequence of store operations from an empty store at most one
\* stored schedule is active.
C3_AtMostOneActive == Cardinality(ActiveIndexes) <= 1

\* C4: a failed poll leaves current_data as it was, current_data never goes
\* back to None, and a render with data in hand draws the board, not the
\* loading screen.
C4_StaleButAvailable ==
    [][ /\ (pc = "update" /\ last_fetch' # "ok") => current_data' = current_data
        /\ current_data # None => current_data' # None
        /\ (pc = "render" /\ current_data # None) => screen' = "board" ]_vars

C4_Witness ==
    /\ pc = "clock_tick"
    /\ last_fetch \in {"http_error", "request_exception"}
    /\ current_data # None
    /\ screen = "board"

\* C5: with no active schedule, or an active schedule without activities,
\* the resolver returns (None, None, None) at every instant.
C5_NothingToResolve ==
    (Resolved /\ (ActiveIndexes = {} \/ Acts = <<>>)) =>
        result = Result(None, None, None)

C5_Witness ==
    /\ Resolved
    /\ ActiveIndexes = {}
    /\ \E i \in DOMAIN schedules :
          \E k \in DOMAIN schedules[i].activities :
             InWindow(schedules[i].activities[k], now)

\* C6: when the windows of several activities hold now, current is the first
\* of them in stable start-time order and next is the entry after it in that
\* order, None when it is the last.
C6_FirstMatchAndSuccessor ==
    LET s == sorted(Acts)
        m == Matching(s, now)
    IN  (Resolved /\ Cardinality(m) >= 2) =>
            LET k == CHOOSE i \in m : \A j \in m : i <= j
            IN  /\ result.current = Some(s[k])
                /\ result.next = IF k + 1 <= Len(s) THEN Some(s[k + 1]) ELSE None

\* C7: when no window holds now, current and time_info are None and next is
\* the activity of least start time among those starting strictly after now
\* (the earliest stored one among equal start times), None without any.
C7_NextUpcoming ==
    (Resolved /\ Matching(Acts, now) = {}) =>
        LET later == {i \in DOMAIN Acts : start_of(Acts[i]) > now}
        IN  /\ result.current = None
            /\ result.time_info = None
            /\ result.next =
                  IF later = {} THEN None
                  ELSE Some(Acts[CHOOSE i \in later : \A j \in later :
                                \/ start_of(Acts[i]) < start_of(Acts[j])
                                \/ start_of(Acts[i]) = start_of(Acts[j]) /\ i <= j])

C7_Witness ==
    /\ Resolved
    /\ Matching(Acts, now) = {}
    /\ Len(Acts) = 2
    /\ result.next = Some(Acts[2])
    /\ start_of(Acts[1]) > now

\* C8: with pairwise non-overlapping windows at most one activity passes the
\* current test and every instant inside a window [start_time, end_time)
\* yields that activity as current.
C8_OneCurrentPerWindow ==
    (Resolved /\ \A i, j \in DOMAIN Acts : i # j => ~Overlap(Acts[i], Acts[j])) =>
        /\ Cardinality({i \in DOMAIN Acts : IsCurrent(Acts[i], now)}) <= 1
        /\ \A i \in DOMAIN Acts :
              InWindow(Acts[i], now) => result.current = Some(Acts[i])

\* C9: through the window of one activity of positive duration progress is
\* reported, is 0 at the start time, never decreases as now advances and
\* stays below 100.
C9_ProgressThroughWindow ==
    (Resolved /\ Len(Acts) = 1 /\ Acts[1].duration_minutes > 0) =>
        LET a == Acts[1]
            at(t) == get_current_and_next_activities(schedules, t).time_info
            inside == {t \in NowSet : InWindow(a, t)}
        IN  /\ now = start_of(a) =>
                 /\ result.time_info # None
                 /\ result.time_info[1].progress_percent.num = 0
            /\ \A t \in inside :
                 /\ at(t) # None
                 /\ at(t)[1].progress_percent.num < 100 * at(t)[1].progress_percent.den
            /\ \A t1, t2 \in inside :
                 SinceStart(a, t1) <= SinceStart(a, t2) =>
                    at(t1)[1].progress_percent.num <= at(t2)[1].progress_percent.num

\* C10: every time_info has elapsed_seconds >= 0, remaining_seconds >= 0 and
\* 0 <= progress_percent <= 100.
C10_TimeInfoInRange ==
    (Resolved /\ result.time_info # None) =>
        LET ti == result.time_info[1]
        IN  /\ ti.elapsed_seconds >= 0
            /\ ti.remaining_seconds >= 0
            /\ ti.progress_percent.den > 0
            /\ 0 <= ti.progress_percent.num
            /\ ti.progress_percent.num <= 100 * ti.progress_percent.den

C10_Witness ==
    /\ Resolved
    /\ result.time_info # None
    /\ result.current = Some(Camp)
    /\ now = At(7, 29, 59, TicksPerSec - 1)

\* C11: get_timer_color has no jump at its stops: green at 0, both ramps give
\* amber at 50, the second ramp gives red at 75, red from 75 to 100, and
\* between stops each channel c is start + (end - start) * ratio truncated,
\* that is c <= start + (end - start) * ratio < c + 1.
C11_ColorRampContinuous ==
    /\ get_timer_color(0) = TIMER_COLOR_GREEN
    /\ GreenToAmber(50 * ProgressDen) = TIMER_COLOR_AMBER
    /\ AmberToRed(50 * ProgressDen) = TIMER_COLOR_AMBER
    /\ AmberToRed(75 * ProgressDen) = TIMER_COLOR_RED
    /\ call.op = "get_timer_color" =>
          LET n == call.progress
              Truncated(from, to, num, den) ==
                  \A i \in 1..3 :
                      /\ ret[i] * den <= from[i] * den + (to[i] - from[i]) * num
                      /\ from[i] * den + (to[i] - from[i]) * num < (ret[i] + 1) * den
          IN  /\ (0 <= n /\ n < 50 * ProgressDen) =>
                    Truncated(TIMER_COLOR_GREEN, TIMER_COLOR_AMBER, n, 50 * ProgressDen)
              /\ (50 * ProgressDen <= n /\ n < 75 * ProgressDen) =>
                    Truncated(TIMER_COLOR_AMBER, TIMER_COLOR_RED,
                              n - 50 * ProgressDen, 25 * ProgressDen)
              /\ (75 * ProgressDen <= n /\ n <= 100 * ProgressDen) =>
                    ret = TIMER_COLOR_RED

C11_Witness ==
    /\ call.op = "get_timer_color"
    /\ call.progress = 75 * ProgressDen - 1
    /\ ret # TIMER_COLOR_RED
    /\ ret # TIMER_COLOR_AMBER

\* distance of an end point of a drawn line from the top centre, clockwise
\* along the screen edge, in units of 1 / PixelUnit pixel
AlongBorder(seg, pt) ==
    LET w == SCREEN_WIDTH * PixelUnit
        h == SCREEN_HEIGHT * PixelUnit
        half == (SCREEN_WIDTH \div 2) * PixelUnit
        inset == (RING_THICKNESS \div 2) * PixelUnit
    IN  IF seg.from[2] = seg.to[2] /\ seg.from[2] = inset
        THEN IF seg.from[1] = half THEN pt[1] - half ELSE half + h + w + h + pt[1]
        ELSE IF seg.from[1] = seg.to[1] /\ seg.from[1] = w - inset
        THEN half + pt[2]
        ELSE IF seg.from[2] = seg.to[2] /\ seg.from[2] = h - inset
        THEN half + h + (w - pt[1])
        ELSE half + h + w + (h - pt[2])

\* C12: for progress in (0, 100] the coloured lines form one clockwise path
\* without gaps from the top centre, of length progress / 100 of the
\* perimeter; for progress <= 0 no coloured line is drawn.
C12_BorderSweep ==
    call.op = "draw_border_timer" =>
        LET n == call.progress
            segs == ret.segments
        IN  /\ n <= 0 => segs = <<>>
            /\ (0 < n /\ n <= 100 * ProgressDen) =>
                  /\ segs # <<>>
                  /\ AlongBorder(segs[1], segs[1].from) = 0
                  /\ \A i \in DOMAIN segs :
                        AlongBorder(segs[i], segs[i].from) <= AlongBorder(segs[i], segs[i].to)
                  /\ \A i \in 1..(Len(segs) - 1) :
                        AlongBorder(segs[i], segs[i].to) = AlongBorder(segs[i + 1], segs[i + 1].from)
                  /\ AlongBorder(segs[Len(segs)], segs[Len(segs)].to) * 100 * ProgressDen
                        = n * 2 * (SCREEN_WIDTH + SCREEN_HEIGHT) * PixelUnit

C12_Witness ==
    /\ call.op = "draw_border_timer"
    /\ call.progress = 100 * ProgressDen - 1
    /\ Len(ret.segments) = 5

\* C13: no line wrap_text returns is wider than max_width, a text with a
\* single word wider than max_width included.
C13_NoLineTooWide ==
    call.op = "wrap_text" =>
        \A i \in DOMAIN ret : get_width(ret[i]) <= call.max_width

\* C14: the lines wrap_text returns, joined with single spaces, are the text.
C14_JoinGivesText ==
    call.op = "wrap_text" => join(ret) = call.text

C14_Witness ==
    /\ call.op = "wrap_text"
    /\ Len(ret) >= 2
    /\ \E i \in DOMAIN ret : get_width(ret[i]) > call.max_width
    /\ \E k \in 1..(Len(call.text) - 1) : call.text[k] = " " /\ call.text[k + 1] = " "

\* C15: get_auto_background_color returns the colour of the first key of the
\* table, in table order, found in the name whatever its case, and
\* (250, 250, 245) when none is found; "Bedtime Reading" holds "bed" and
\* "read", and "read", the earlier key, decides.
C15_FirstKeyDecides ==
    call.op = "get_auto_background_color" =>
        LET name == lower(call.name)
            found == {k \in DOMAIN color_map : Contains(color_map[k].key, name)}
            KeyAt(k) == color_map[k].key
        IN  /\ found = {} => ret = <<250, 250, 245>>
            /\ found # {} =>
                  \E k \in found : /\ \A j \in found : k <= j
                                   /\ ret = color_map[k].color
            /\ call.name = BedtimeReading =>
                  /\ \E k, j \in found : /\ KeyAt(k) = <<"r", "e", "a", "d">>
                                         /\ KeyAt(j) = <<"b", "e", "d">>
                                         /\ k < j
                  /\ ret = <<250, 240, 230>>

C15_Witness ==
    /\ call.op = "get_auto_background_color"
    /\ call.name = BedtimeReading
    /\ ret = <<250, 240, 230>>


\* what the card of the same activity shows when it names no image
WithoutImage(activity) ==
    CardBackground(image_cache, disk, Some([activity EXCEPT !.background_image = None]),
                   CardSize[1], CardSize[2], "error", "fail").background

\* C16: a card whose activity names a background image shows the loaded
\* image whenever the load succeeds; when the load fails nothing is raised
\* and the card background is the one the same activity gets with no image,
\* the gradient of its auto-derived colour at 30% opacity.
C16_ImageOrSameFallback ==
    (call.op = "draw_activity_card" /\ ret.tried) =>
        /\ ~ret.raised
        /\ ret.loaded # None => ret.background = ImageBackground(ret.loaded[1])
        /\ ret.loaded = None =>
             /\ ret.background = WithoutImage(call.activity[1])
             /\ ret.background.kind = "gradient"
             /\ ret.background.alpha = 76

\* a card of "Bedtime Reading", whose colour is not the default, fell back
C16_Witness ==
    /\ call.op = "draw_activity_card"
    /\ ret.tried
    /\ ret.loaded = None
    /\ call.activity[1].name = BedtimeReading
    /\ ret.background.color # Some(DefaultBackground)

\* C20: across load_background_image calls an entry of image_cache is never
\* removed or replaced, a call whose key is cached returns the cached surface
\* with no download and no decode, and a call that fails adds no entry.
C20_CacheAppendOnly ==
    [][ /\ \A k \in DOMAIN image_cache :
              k \in DOMAIN image_cache' /\ image_cache'[k] = image_cache[k]
        /\ call'.op = "load_background_image" =>
              LET key == <<call'.image_url, call'.width, call'.height>>
              IN  /\ key \in DOMAIN image_cache =>
                        /\ ret'.surface = Some(image_cache[key])
                        /\ ret'.io = {}
                        /\ disk' = disk
                  /\ ret'.surface = None => image_cache' = image_cache
      ]_vars

\* a load answered from the cache while the cache holds several entries,
\* after some other load has failed and left a partial file behind
C20_Witness ==
    /\ call.op = "load_background_image"
    /\ ret.surface # None
    /\ ret.io = {}
    /\ Cardinality(DOMAIN image_cache) >= 2
    /\ \E f \in DOMAIN disk : disk[f] = None

\* C17: once handle_events has handled a quit signal, running is false and
\* stays false, update() polls the API no more and render() draws no more.
C17_QuitStopsAtOnce ==
    [][ ~running =>
          /\ ~running'
          /\ ~(pc = "update" /\ polled')
          /\ pc # "render" ]_vars

\* C18: after handle_events has handled the refresh key the next update()
\* polls, however recent the poll before; handle_events leaves current_data
\* alone, and a batch with no quit signal in it leaves running alone.
C18_RefreshForcesPoll ==
    [][ /\ (pc = "update" /\ "refresh" \in signals) => polled'
        /\ pc = "handle_events" => current_data' = current_data
        /\ (pc = "handle_events" /\ "quit" \notin signals') => running' = running
      ]_vars

\* a refresh made update() poll less than POLL_INTERVAL after its last poll
C18_Witness ==
    /\ pc = "render"
    /\ signals = {"refresh"}
    /\ running
    /\ polled
    /\ Len(polls) = 2
    /\ polls[2] - polls[1] < POLL_INTERVAL

\* C19: every poll update() makes, failed or not, leaves its time in
\* last_poll; two polls in a row with no refresh handled before the second
\* are at least POLL_INTERVAL apart; an update() reached POLL_INTERVAL or
\* more after the last poll polls again; a poll ends the update() it is in.
C19_PollsSpaced ==
    [][ pc = "update" =>
          /\ polled' =>
                /\ last_poll' = clock
                /\ pc' = "render"
                /\ (Len(polls') = 2 /\ "refresh" \notin signals) =>
                       polls'[2] - polls'[1] >= POLL_INTERVAL
          /\ (polls # <<>> /\ clock - polls[Len(polls)] >= POLL_INTERVAL) => polled'
      ]_vars

\* a failed poll was retried, and the retry came POLL_INTERVAL or more later
C19_Witness ==
    /\ pc = "render"
    /\ polled
    /\ Len(polls) = 2
    /\ polls[2] - polls[1] >= POLL_INTERVAL
    /\ last_fetch # "ok"
    /\ current_data = None
    /\ last_poll = polls[2]
====
